---------------------------- MODULE Spec2Model ----------------------------
(***************************************************************************)
(* Centralized federated learning on a label-skewed MNIST partition        *)
(* (src/main.py): the partitioner dataset_to_nodes_partitioning, the       *)
(* aggregator average_weights, the 80/20 split, and the round loop of      *)
(* __main__.                                                               *)
(*                                                                         *)
(* The network, the optimizer and the data loader are collaborators: a     *)
(* training call yields some parameter set, an evaluation yields some      *)
(* accuracy.  The random generator of numpy is a collaborator too: a       *)
(* shuffle yields any permutation and a choice any index sequence.         *)
(* Record indices, device ids, area ids and labels are 0-based as in the   *)
(* source; TLA+ sequences are 1-based, so element k of a Python list is    *)
(* element k+1 of the sequence that models it.                             *)
(***************************************************************************)
EXTENDS Integers, Sequences, FiniteSets, TLC

(***************************************************************************)
(* Bounds of the model.                                                    *)
(***************************************************************************)
\* devices (nodes_count) range over 1..MaxDevices
MaxDevices == 4
\* areas range over 1..MaxAreas
MaxAreas == 3
\* len(train_dataset.classes): 10 for MNIST, scaled down
NumClasses == 2
\* len(train_dataset): 60000 for MNIST, scaled down
DatasetLen == 2
\* global_rounds ranges over 0..MaxRounds
MaxRounds == 2
\* significand bits of the scaled-down floating-point format (24 in float32)
MantBits == 3
\* average_weights is applied to lists of 1..MaxModels state dicts
MaxModels == 3

VARIABLES
    nodes_count,        \* argument nodes_count / devices of __main__
    areas,              \* argument areas
    shuffling,          \* argument shuffling
    data_fraction,      \* argument data_fraction, a fraction <<num, den>>
    train_dataset,      \* the label of every training record, in index order
    pc,                 \* where the program is
    error,              \* the exception that ended the run, or "none"
    index,              \* line 99: the area being processed
    node_pos,           \* line 105: position in the area's nodes
    split_record_per_node, \* line 104: the area's chunks
    index_mapping,      \* line 97 / mapping of line 164: node -> (indices, classes)
    global_rounds,      \* line 165
    local_epochs,       \* line 166
    round,              \* line 177: the round loop's variable
    i,                  \* line 183: the device loop's variable
    heap,               \* the parameters of the model objects: global_model and
                        \* the model local_training is handed
    global_weights,     \* lines 170, 195
    local_weights,      \* line 178: the state dicts collected in this round
    round_log,          \* the calls of this round's device loop, in order
    test_eval,          \* line 207: the final evaluate call, or "none"
    models,             \* the argument of a call of average_weights
    w_avg               \* its result, or "none"

cfgVars == <<nodes_count, areas, shuffling, data_fraction, train_dataset>>

partVars == <<index, node_pos, split_record_per_node, index_mapping>>

runVars == <<global_rounds, local_epochs, round, i, heap, global_weights,
             local_weights, round_log, test_eval>>

avgVars == <<models, w_avg>>

vars == <<cfgVars, pc, error, partVars, runVars, avgVars>>

(***************************************************************************)
(* Helpers.                                                                *)
(***************************************************************************)
Min(a, b) == IF a < b THEN a ELSE b

\* the elements of a sequence
Range(s) == {s[k] : k \in 1..Len(s)}

\* np.arange(n): 0, 1, ..., n-1
arange(n) == [k \in 1..n |-> k - 1]

\* every ordering of the elements of a sequence (np.random.shuffle)
Permutations_of(s) ==
    {[k \in 1..Len(s) |-> s[p[k]]] : p \in {q \in [1..Len(s) -> 1..Len(s)] :
                                              \A a, b \in 1..Len(s) : a # b => q[a] # q[b]}}

(***************************************************************************)
(* Tensor arithmetic.  A state dict maps a parameter name to a float       *)
(* tensor; `w_avg[key] += t` and torch.div round every element to the      *)
(* format's precision, to nearest and ties to even.  The format is         *)
(* float32 scaled down to MantBits significand bits; its numbers are the   *)
(* integers m * 2^e with |m| < 2^MantBits and e >= 0.                      *)
(***************************************************************************)
Abs(x) == IF x < 0 THEN -x ELSE x

RECURSIVE Pow2(_)
Pow2(n) == IF n = 0 THEN 1 ELSE 2 * Pow2(n - 1)

\* the gap between neighbouring floats at magnitude a / b, from gap s up
RECURSIVE Spacing(_, _, _)
Spacing(a, b, s) ==
    IF a < Pow2(MantBits) * b * s THEN s ELSE Spacing(a, b, 2 * s)

\* the float nearest to the rational a / b (b > 0)
float_round(a, b) ==
    LET s == Spacing(Abs(a), b, 1)
        q == Abs(a) \div (b * s)
        r == Abs(a) % (b * s)
        m == IF 2 * r < b * s THEN q
             ELSE IF 2 * r > b * s THEN q + 1
             ELSE IF q % 2 = 0 THEN q ELSE q + 1
    IN (IF a < 0 THEN -1 ELSE 1) * m * s

\* line 56: w_avg[key] += models[i][key]
tensor_add(t, u) == [k \in 1..Len(t) |-> float_round(t[k] + u[k], 1)]

\* line 57: torch.div(w_avg[key], len(models))
tensor_div(t, n) == [k \in 1..Len(t) |-> float_round(t[k], n)]

(***************************************************************************)
(* average_weights, lines 44-58.                                           *)
(***************************************************************************)
\* a variant whose inner loop stops one element early
average_weights_skip_last(list) ==
    LET w_avg_0 == list[1]
        acc(key) ==
            LET F[n \in 1..Len(list)] ==
                    IF n = 1 THEN w_avg_0[key]
                    ELSE IF n = Len(list) THEN F[n - 1]
                    ELSE tensor_add(F[n - 1], list[n][key])
            IN F[Len(list)]
    IN [key \in DOMAIN w_avg_0 |-> tensor_div(acc(key), Len(list))]

average_weights(list) ==
    LET w_avg_0 == list[1]                                  \* line 53
        acc(key) ==                                         \* lines 55-56
            LET F[n \in 1..Len(list)] ==
                    IF n = 1 THEN w_avg_0[key]
                    ELSE tensor_add(F[n - 1], list[n][key])
            IN F[Len(list)]
    IN [key \in DOMAIN w_avg_0 |-> tensor_div(acc(key), Len(list))]  \* line 57

\* the values a parameter takes in the model
FloatVals == {float_round(v, 1) : v \in {-192, 40, 192}}

\* the state dicts of the model: two parameters of different shapes
StateDicts ==
    {[key \in {"fc2.weight", "fc2.bias"} |->
         IF key = "fc2.weight" THEN <<a, b>> ELSE <<b>>] : a, b \in FloatVals}

\* every list of 1..n elements of S
ListsUpTo(S, n) == UNION {[1..k -> S] : k \in 1..n}

(***************************************************************************)
(* np.array_split(ary, sections): `sections` chunks, the first             *)
(* len % sections of them one element longer.  sections >= 1.              *)
(***************************************************************************)
ChunkStart(total, sections, k) ==
    k * (total \div sections) + Min(k, total % sections)

ChunkSize(total, sections, k) ==
    (total \div sections) + (IF k < total % sections THEN 1 ELSE 0)

array_split(ary, sections) ==
    [c \in 1..sections |->
        SubSeq(ary, ChunkStart(Len(ary), sections, c - 1) + 1,
                    ChunkStart(Len(ary), sections, c - 1)
                        + ChunkSize(Len(ary), sections, c - 1))]

(***************************************************************************)
(* dataset_to_nodes_partitioning, lines 85-111.                            *)
(***************************************************************************)
\* line 91: int(nodes_count / areas)
nodes_per_area == nodes_count \div areas

\* line 92
dataset_labels_count == NumClasses

\* line 93
split_nodes_per_area == array_split(arange(nodes_count), areas)

\* a variant that splits one class too few
split_classes_short == array_split(arange(dataset_labels_count - 1), areas)

\* line 94
split_classes_per_area == array_split(arange(dataset_labels_count), areas)

\* a variant whose filter is inverted
records_of_inverted(classes) ==
    LET hit(r) == train_dataset[r + 1] \notin Range(classes)
        F[n \in 0..Len(train_dataset)] ==
            IF n = 0 THEN <<>>
            ELSE IF hit(n - 1) THEN Append(F[n - 1], n - 1) ELSE F[n - 1]
    IN F[Len(train_dataset)]

\* line 100: the indices of the records whose label is in `classes`, ascending
records_of(classes) ==
    LET hit(r) == train_dataset[r + 1] \in Range(classes)
        F[n \in 0..Len(train_dataset)] ==
            IF n = 0 THEN <<>>
            ELSE IF hit(n - 1) THEN Append(F[n - 1], n - 1) ELSE F[n - 1]
    IN F[Len(train_dataset)]

\* line 106: the chunk a node draws from
chunk_of(node) == node % nodes_per_area

\* a variant that rounds up
bound_of_ceil(len) ==
    (len * data_fraction[1] + data_fraction[2] - 1) \div data_fraction[2]

\* line 107: int(len(list) * data_fraction)
bound_of(len) == (len * data_fraction[1]) \div data_fraction[2]

\* lines 99-104: one area: collect, shuffle, split
AreaStep ==
    /\ pc = "partition_area"
    /\ index < areas
    /\ LET classes == split_classes_per_area[index + 1]
           records_per_class == records_of(classes)
       IN \E shuffled \in (IF shuffling THEN Permutations_of(records_per_class)
                           ELSE {records_per_class}) :
            IF nodes_per_area <= 0
            THEN \* np.array_split raises ValueError for 0 sections
                 /\ pc' = "ABORTED"
                 /\ error' = "ValueError"
                 /\ UNCHANGED <<split_record_per_node, node_pos>>
            ELSE /\ split_record_per_node' = array_split(shuffled, nodes_per_area)
                 /\ node_pos' = 0
                 /\ pc' = "partition_node"
                 /\ UNCHANGED error
    /\ UNCHANGED <<cfgVars, index, index_mapping, runVars, avgVars>>

\* lines 105-109: one node of the area: sample its chunk with replacement
NodeStep ==
    /\ pc = "partition_node"
    /\ LET nodes == split_nodes_per_area[index + 1]
           classes == split_classes_per_area[index + 1]
           node == nodes[node_pos + 1]
           list == split_record_per_node[chunk_of(node) + 1]
           bound == bound_of(Len(list))
       IN /\ node_pos < Len(nodes)
          /\ \E indexes \in [1..bound -> 0..(Len(list) - 1)] :
               index_mapping' = [n \in DOMAIN index_mapping \cup {node} |->
                   IF n = node
                   THEN <<[k \in 1..bound |-> list[indexes[k] + 1]], classes>>
                   ELSE index_mapping[n]]
          /\ node_pos' = node_pos + 1
          /\ IF node_pos + 1 = Len(nodes)
             THEN /\ index' = index + 1
                  /\ pc' = "partition_area"
                  \* the area's chunks are read no more: line 104 rebinds
                  \* the name before the next read, line 111 drops it
                  /\ split_record_per_node' = <<>>
             ELSE UNCHANGED <<index, pc, split_record_per_node>>
    /\ UNCHANGED <<cfgVars, error, runVars, avgVars>>

\* line 111: return index_mapping; line 164: mapping = ...
PartitionReturn ==
    /\ pc = "partition_area"
    /\ index = areas
    /\ pc' = "INIT"
    /\ node_pos' = 0
    /\ UNCHANGED <<cfgVars, error, index, split_record_per_node, index_mapping,
                   runVars, avgVars>>

(***************************************************************************)
(* train_val_split, lines 152-156.                                         *)
(***************************************************************************)
\* line 153: int(len(data) * 0.8)
train_size_of(len) == (len * 4) \div 5

\* line 154
validation_size_of(len) == len - train_size_of(len)

(***************************************************************************)
(* local_training, lines 113-130, and evaluate, lines 132-150: whether     *)
(* the call returns.  A data loader over n records yields ceil(n / 64)     *)
(* batches, none when n = 0.                                               *)
(***************************************************************************)
\* the exceptions a call of local_training can end in.  Over no record the
\* shuffling loader of line 118 raises ValueError where the library refuses
\* an empty random sampler, and line 128 divides by len(batch_loss) = 0
\* where it does not; with no epoch line 130 divides by len(epoch_loss) = 0
local_training_raises(epochs, data_len) ==
    IF data_len = 0 THEN {"ValueError", "ZeroDivisionError"}
    ELSE IF epochs = 0 THEN {"ZeroDivisionError"}
    ELSE {}

local_training_returns(epochs, data_len) ==
    local_training_raises(epochs, data_len) = {}

\* line 149 divides by total
evaluate_returns(data_len) == data_len >= 1

(***************************************************************************)
(* __main__, lines 159-209.                                                *)
(***************************************************************************)
\* the parameter sets a training call may leave in the model it is handed
TrainedDicts ==
    {sd \in StateDicts : /\ sd["fc2.weight"][1] = sd["fc2.weight"][2]
                         /\ sd["fc2.weight"][1] > 0}

\* CNNMnist() of line 169: the initial parameters
InitialDict == [key \in {"fc2.weight", "fc2.bias"} |->
                   IF key = "fc2.weight" THEN <<0, 0>> ELSE <<0>>]

\* a variant that hands local_training the global model itself
training_target_aliased == "global_model"

\* line 188: the object local_training is handed, copy.deepcopy(global_model)
training_target == "copy"

\* line 166: local_epochs, 2 in the source; 0 is the degenerate value
EpochChoices == {0, 2}

\* lines 165-175
InitStep ==
    /\ pc = "INIT"
    /\ global_rounds' \in 0..MaxRounds
    /\ local_epochs' \in EpochChoices
    /\ round' = 0
    /\ pc' = IF global_rounds' > 0 THEN "ROUND_ACTIVE" ELSE "FINAL_EVAL"
    /\ UNCHANGED <<cfgVars, error, partVars, i, heap, global_weights,
                   local_weights, round_log, test_eval, avgVars>>

\* lines 178-181: a round begins
RoundStart ==
    /\ pc = "ROUND_ACTIVE"
    /\ local_weights' = <<>>
    /\ round_log' = <<>>
    /\ i' = 0
    /\ pc' = "DEVICES"
    /\ UNCHANGED <<cfgVars, error, partVars, global_rounds, local_epochs, round,
                   heap, global_weights, test_eval, avgVars>>

\* lines 184-193: one device: split, train a copy, evaluate, collect
DeviceStep ==
    /\ pc = "DEVICES"
    /\ i < nodes_count
    /\ LET idxs == index_mapping[i][1]
           train_len == train_size_of(Len(idxs))
           val_len == validation_size_of(Len(idxs))
           copied == [heap EXCEPT !["copy"] = heap["global_model"]]
           start == copied[training_target]
       IN IF ~local_training_returns(local_epochs, train_len)
          THEN /\ pc' = "ABORTED"
               /\ error' \in local_training_raises(local_epochs, train_len)
               /\ heap' = copied
               /\ UNCHANGED <<i, local_weights, round_log>>
          ELSE \E trained \in TrainedDicts :
               /\ heap' = [copied EXCEPT ![training_target] = trained]
               /\ IF ~evaluate_returns(val_len)
                  THEN /\ pc' = "ABORTED"
                       /\ error' = "ZeroDivisionError"
                       /\ UNCHANGED <<i, local_weights, round_log>>
                  ELSE /\ local_weights' = Append(local_weights, trained)
                       /\ round_log' = Append(round_log,
                              [device |-> i, round |-> round, start |-> start,
                               result |-> trained,
                               train_len |-> train_len, val_len |-> val_len])
                       /\ i' = i + 1
                       /\ pc' = IF i + 1 = nodes_count THEN "AGGREGATE" ELSE "DEVICES"
                       /\ UNCHANGED error
    /\ UNCHANGED <<cfgVars, partVars, global_rounds, local_epochs, round,
                   global_weights, test_eval, avgVars>>

\* a variant without line 196: the average is computed and never installed
Aggregate_without_install ==
    /\ pc = "AGGREGATE"
    /\ global_weights' = average_weights(local_weights)
    /\ round' = round + 1
    /\ pc' = IF round + 1 < global_rounds THEN "ROUND_ACTIVE" ELSE "FINAL_EVAL"
    /\ UNCHANGED <<cfgVars, error, partVars, global_rounds, local_epochs, i, heap,
                   local_weights, round_log, test_eval, avgVars>>

\* lines 195-204: aggregate, install, report; then the next round or the end
Aggregate ==
    /\ pc = "AGGREGATE"
    /\ global_weights' = average_weights(local_weights)
    /\ heap' = [heap EXCEPT !["global_model"] = global_weights']
    /\ round' = round + 1
    /\ pc' = IF round + 1 < global_rounds THEN "ROUND_ACTIVE" ELSE "FINAL_EVAL"
    /\ UNCHANGED <<cfgVars, error, partVars, global_rounds, local_epochs, i,
                   local_weights, round_log, test_eval, avgVars>>

\* lines 206-209: evaluate the global model on the test dataset
FinalEval ==
    /\ pc = "FINAL_EVAL"
    /\ test_eval' = [model_w |-> heap["global_model"], data |-> "test_dataset"]
    /\ pc' = "DONE"
    /\ UNCHANGED <<cfgVars, error, partVars, global_rounds, local_epochs, round, i,
                   heap, global_weights, local_weights, round_log, avgVars>>

(***************************************************************************)
(* Specifications.                                                         *)
(***************************************************************************)
Fractions == {<<0, 1>>, <<1, 2>>, <<1, 1>>}

\* a training set with two records of each of two classes
balanced_dataset == <<0, 1, 0, 1>>

\* line 89: every short training set, and the balanced one
Datasets == [1..DatasetLen -> 0..(NumClasses - 1)] \cup {balanced_dataset}

InitCfg ==
    /\ nodes_count \in 1..MaxDevices
    /\ areas \in 1..MaxAreas
    /\ shuffling \in BOOLEAN
    /\ data_fraction \in Fractions
    /\ train_dataset \in Datasets

InitLocals ==
    /\ error = "none"
    /\ index = 0
    /\ node_pos = 0
    /\ split_record_per_node = <<>>
    /\ index_mapping = <<>>
    /\ global_rounds = 0
    /\ local_epochs = 0
    /\ round = 0
    /\ i = 0
    /\ heap = [o \in {"global_model", "copy"} |-> InitialDict]
    /\ global_weights = InitialDict
    /\ local_weights = <<>>
    /\ round_log = <<>>
    /\ test_eval = "none"

\* the partitioner alone, over every configuration
InitPart ==
    /\ InitCfg
    /\ InitLocals
    /\ pc = "partition_area"
    /\ models = <<>>
    /\ w_avg = "none"

NextPart == AreaStep \/ NodeStep \/ PartitionReturn

SpecPart == InitPart /\ [][NextPart]_vars

\* the whole program, on the balanced training set; line 164 passes
\* shuffling = True
Init == InitPart /\ train_dataset = balanced_dataset /\ shuffling = TRUE

Next ==
    \/ AreaStep
    \/ NodeStep
    \/ PartitionReturn
    \/ InitStep
    \/ RoundStart
    \/ DeviceStep
    \/ Aggregate
    \/ FinalEval

Spec == Init /\ [][Next]_vars

\* average_weights alone, over every list of state dicts
AverageCall ==
    /\ pc = "average_call"
    /\ w_avg' = average_weights(models)
    /\ pc' = "average_done"
    /\ UNCHANGED <<cfgVars, error, partVars, runVars, models>>

InitAvg ==
    /\ nodes_count = 1
    /\ areas = 1
    /\ shuffling = FALSE
    /\ data_fraction = <<1, 1>>
    /\ train_dataset = <<>>
    /\ InitLocals
    /\ pc = "average_call"
    /\ models \in ListsUpTo(StateDicts, MaxModels)
    /\ w_avg = "none"

NextAvg == AverageCall

SpecAvg == InitAvg /\ [][NextAvg]_vars

(***************************************************************************)
(* What the properties speak of.                                           *)
(***************************************************************************)
Devices == 0..(nodes_count - 1)

\* dataset_to_nodes_partitioning has returned its mapping
Returned ==
    \/ pc \in {"INIT", "ROUND_ACTIVE", "DEVICES", "AGGREGATE", "FINAL_EVAL", "DONE"}
    \/ pc = "ABORTED" /\ index = areas

\* a device's record indices and its allowed labels
Shard(n) == index_mapping[n][1]

AllowedLabels(n) == Range(index_mapping[n][2])

\* the area a device belongs to
AreaOf(n) == CHOOSE a \in 0..(areas - 1) : n \in Range(split_nodes_per_area[a + 1])

(***************************************************************************)
(* C1: in the returned mapping any two distinct devices hold disjoint sets *)
(* of record indices, for every 1 <= areas <= nodes_count, divisible or    *)
(* not.  The code breaks it when areas does not divide nodes_count.        *)
(***************************************************************************)
C1_DisjointShards ==
    (Returned /\ 1 <= areas /\ areas <= nodes_count) =>
        \A a, b \in Devices :
            a # b => Range(Shard(a)) \cap Range(Shard(b)) = {}

\* the part of C1 the code keeps: disjoint shards when areas divides nodes_count
DisjointWhenDivisible ==
    (Returned /\ nodes_count % areas = 0) =>
        \A a, b \in Devices :
            a # b => Range(Shard(a)) \cap Range(Shard(b)) = {}

(***************************************************************************)
(* C2: for 1 <= areas <= nodes_count and areas <= number of classes, the   *)
(* returned mapping has an entry for every device, the union of the        *)
(* devices' allowed labels is the full class set, the devices of one area  *)
(* carry the same label set and the label sets of two different areas are  *)
(* disjoint.                                                               *)
(***************************************************************************)
C2_LabelCoverage ==
    (Returned /\ areas <= nodes_count /\ areas <= NumClasses) =>
        /\ DOMAIN index_mapping = Devices
        /\ UNION {AllowedLabels(n) : n \in Devices} = 0..(NumClasses - 1)
        /\ \A n, m \in Devices :
              IF AreaOf(n) = AreaOf(m)
              THEN AllowedLabels(n) = AllowedLabels(m)
              ELSE AllowedLabels(n) \cap AllowedLabels(m) = {}

\* a mapping over two areas of unequal size has been returned
C2_Witness ==
    /\ Returned
    /\ areas = 2
    /\ nodes_count = 3
    /\ AllowedLabels(0) # AllowedLabels(2)

(***************************************************************************)
(* C3: every record index in a device's shard refers to a training record  *)
(* whose label is among the device's allowed labels, whatever shuffling    *)
(* and data_fraction are.                                                  *)
(***************************************************************************)
C3_LabelRestriction ==
    \A n \in DOMAIN index_mapping :
        \A k \in 1..Len(Shard(n)) :
            /\ Shard(n)[k] \in 0..(Len(train_dataset) - 1)
            /\ train_dataset[Shard(n)[k] + 1] \in AllowedLabels(n)

\* a returned mapping with a non-empty shard, of a shuffled area, beside
\* records the device may not hold
C3_Witness ==
    /\ Returned
    /\ shuffling
    /\ \E n \in Devices :
          /\ Len(Shard(n)) >= 1
          /\ \E r \in 1..Len(train_dataset) : train_dataset[r] \notin AllowedLabels(n)

(***************************************************************************)
(* C4: when a device is given its shard, the shard has                     *)
(* floor(chunk_size * f) indices, chunk_size being the length of the       *)
(* chunk of the area's indices the device draws from, and every index of   *)
(* the shard is an element of that chunk (f in [0, 1]).                    *)
(***************************************************************************)
C4_SampleCount ==
    [][\A n \in (DOMAIN index_mapping') \ (DOMAIN index_mapping) :
          LET chunk == split_record_per_node[(n % nodes_per_area) + 1]
              shard == index_mapping'[n][1]
              f == data_fraction
          IN /\ f[1] >= 0 /\ f[1] <= f[2]
             /\ f[2] * Len(shard) <= Len(chunk) * f[1]
             /\ Len(chunk) * f[1] < f[2] * (Len(shard) + 1)
             /\ Range(shard) \subseteq Range(chunk)]_vars

\* at f = 1.0 a device drew the same index twice, leaving its chunk uncovered
C4_Witness ==
    /\ Returned
    /\ data_fraction = <<1, 1>>
    /\ \E n \in Devices :
          /\ Len(Shard(n)) = 2
          /\ Shard(n)[1] = Shard(n)[2]

(***************************************************************************)
(* average_weights against exact arithmetic.                               *)
(***************************************************************************)
\* the exact sum of element k of parameter key over a list of state dicts
ExactSum(list, key, k) ==
    LET F[n \in 0..Len(list)] ==
            IF n = 0 THEN 0 ELSE F[n - 1] + list[n][key][k]
    IN F[Len(list)]

\* the sum of the magnitudes
AbsSum(list, key, k) ==
    LET F[n \in 0..Len(list)] ==
            IF n = 0 THEN 0 ELSE F[n - 1] + Abs(list[n][key][k])
    IN F[Len(list)]

\* the gap between neighbouring floats at magnitude x
Ulp(x) == Spacing(x, 1, 1)

\* every reordering of a list
Reorderings(list) == Permutations_of(list)

Identical(list) == \A n \in 1..Len(list) : list[n] = list[1]

(***************************************************************************)
(* C5, as amended: average_weights of a non-empty list of state dicts      *)
(* with the same keys and shapes returns a state dict with those keys and  *)
(* shapes; the single-element list [P] gives exactly P; every entry is     *)
(* the arithmetic mean of that entry over the list up to the rounding of   *)
(* the len - 1 additions and the one division (n * entry differs from the  *)
(* exact sum by less than n gaps of the float format at the magnitude of   *)
(* the summed magnitudes), and so is the entry of any reordering.          *)
(***************************************************************************)
C5_MeanUpToRounding ==
    pc = "average_done" =>
        LET n == Len(models) IN
        /\ DOMAIN w_avg = DOMAIN models[1]
        /\ \A key \in DOMAIN w_avg : Len(w_avg[key]) = Len(models[1][key])
        /\ n = 1 => w_avg = models[1]
        /\ \A key \in DOMAIN w_avg : \A k \in 1..Len(w_avg[key]) :
              LET tol == n * Ulp(AbsSum(models, key, k))
                  exact == ExactSum(models, key, k)
              IN /\ Abs(n * w_avg[key][k] - exact) < tol \/ n * w_avg[key][k] = exact
                 /\ \A other \in Reorderings(models) :
                       LET o == average_weights(other)[key][k]
                       IN Abs(n * o - exact) < tol \/ n * o = exact

\* three identical state dicts were averaged and the result is not the input
C5_Witness ==
    /\ pc = "average_done"
    /\ Len(models) = 3
    /\ Identical(models)
    /\ w_avg # models[1]

(***************************************************************************)
(* C5, as stated: every entry of the result is the elementwise arithmetic  *)
(* mean, n identical state dicts average to the input, and the result      *)
(* does not depend on the order of the list.                               *)
(***************************************************************************)
C5_ExactMean ==
    pc = "average_done" =>
        LET n == Len(models) IN
        /\ DOMAIN w_avg = DOMAIN models[1]
        /\ Identical(models) => w_avg = models[1]
        /\ \A other \in Reorderings(models) : average_weights(other) = w_avg
        /\ \A key \in DOMAIN w_avg : \A k \in 1..Len(w_avg[key]) :
              n * w_avg[key][k] = ExactSum(models, key, k)

(***************************************************************************)
(* The round loop.                                                         *)
(***************************************************************************)
\* the devices processed so far in the current round: one call each, in
\* device order, all of this round, each result collected in its place
OncePerDevice ==
    /\ Len(round_log) = i
    /\ Len(local_weights) = i
    /\ \A k \in 1..i :
          /\ round_log[k].device = k - 1
          /\ round_log[k].round = round
          /\ local_weights[k] = round_log[k].result

(***************************************************************************)
(* C6: in every round the aggregation runs exactly once, and only after    *)
(* every device 0..nodes_count-1 was trained and evaluated exactly once    *)
(* in that round; it is given exactly nodes_count parameter sets, one per  *)
(* device, all of that round; its result replaces the global parameters    *)
(* unconditionally and the next round starts from it; with one device the  *)
(* global parameters after the round are that device's trained ones.       *)
(***************************************************************************)
C6_AggregationBarrier ==
    /\ [](pc \in {"DEVICES", "AGGREGATE"} => OncePerDevice)
    /\ [](pc = "AGGREGATE" => i = nodes_count)
    /\ [][/\ pc = "AGGREGATE" =>
               /\ round' = round + 1
               /\ global_weights' = average_weights(local_weights)
               /\ heap'["global_model"] = global_weights'
               /\ nodes_count = 1 => heap'["global_model"] = local_weights[1]
               /\ pc' \in {"ROUND_ACTIVE", "FINAL_EVAL"}
          /\ (round' # round \/ global_weights' # global_weights) => pc = "AGGREGATE"
          /\ pc' = "AGGREGATE" => pc = "DEVICES"
          /\ (pc = "ROUND_ACTIVE" /\ round >= 1) =>
               heap'["global_model"] = global_weights]_vars

\* a later round of several devices stands at the barrier with differing results
C6_Witness ==
    /\ pc = "AGGREGATE"
    /\ nodes_count >= 2
    /\ round >= 1
    /\ local_weights[1] # local_weights[2]
    /\ average_weights(local_weights) # global_weights

(***************************************************************************)
(* C7: the run goes INIT, exactly global_rounds rounds, FINAL_EVAL once,   *)
(* DONE, and always terminates there: whenever a run on a partition with   *)
(* no empty shard and local_epochs >= 1 has stopped, it stopped in DONE    *)
(* after global_rounds rounds with the test dataset evaluated under the    *)
(* last round's global parameters.  The code stops such a run inside a     *)
(* round.                                                                  *)
(***************************************************************************)
C7_RunReachesDone ==
    (/\ Returned
     /\ areas <= nodes_count
     /\ areas <= NumClasses
     /\ \A n \in Devices : Len(Shard(n)) >= 1
     /\ local_epochs >= 1
     /\ ~ENABLED Next) =>
        /\ pc = "DONE"
        /\ round = global_rounds
        /\ test_eval.data = "test_dataset"
        /\ test_eval.model_w = global_weights

\* the part of C7 the code keeps: the order of the phases, the round count,
\* the partition built once, and what the final evaluation is given
PhaseOrder ==
    /\ [](pc \in {"ROUND_ACTIVE", "DEVICES", "AGGREGATE"} => round < global_rounds)
    /\ [](pc \in {"FINAL_EVAL", "DONE"} => round = global_rounds)
    /\ [](pc = "DONE" =>
            /\ test_eval.data = "test_dataset"
            /\ test_eval.model_w = global_weights
            /\ global_rounds = 0 => test_eval.model_w = InitialDict)
    /\ [][/\ Returned => index_mapping' = index_mapping
          /\ pc = "INIT" => pc' \in {"ROUND_ACTIVE", "FINAL_EVAL"}
          /\ pc = "ROUND_ACTIVE" => pc' = "DEVICES"
          /\ pc = "DEVICES" => pc' \in {"DEVICES", "AGGREGATE", "ABORTED"}
          /\ pc = "FINAL_EVAL" => pc' = "DONE"
          /\ pc' = "FINAL_EVAL" => pc \in {"INIT", "AGGREGATE"}]_vars

(***************************************************************************)
(* C8: a configuration with areas > nodes_count, with areas > number of    *)
(* classes, or in which some device would receive a zero-length shard      *)
(* makes dataset_to_nodes_partitioning end in an error: no mapping is      *)
(* returned and the round loop is never entered.  The code raises for the  *)
(* first of the three only.                                                *)
(***************************************************************************)
C8_ConfigErrorsSurface ==
    Returned =>
        /\ areas <= nodes_count
        /\ areas <= NumClasses
        /\ \A n \in Devices : Len(Shard(n)) # 0

\* the part of C8 the code keeps: more areas than devices ends in an error
ErrorWhenMoreAreasThanDevices ==
    areas > nodes_count => ~Returned /\ pc \in {"partition_area", "ABORTED"}

(***************************************************************************)
(* C9: while the devices of a round are processed the global parameters    *)
(* do not change: every device of round r starts from a private copy of    *)
(* the global parameters installed at the end of round r-1 (the initial    *)
(* ones for r = 0); training a device changes neither the global           *)
(* parameters nor the parameter sets already collected; the global         *)
(* parameters change only at the aggregation step.                         *)
(***************************************************************************)
C9_GlobalFrozenInRound ==
    /\ [](heap["global_model"] = global_weights)
    /\ [](round = 0 => global_weights = InitialDict)
    /\ [](pc \in {"DEVICES", "AGGREGATE"} =>
            \A k \in 1..Len(round_log) : round_log[k].start = global_weights)
    /\ [][/\ pc = "DEVICES" =>
               /\ heap'["global_model"] = heap["global_model"]
               /\ global_weights' = global_weights
               /\ Len(local_weights') >= Len(local_weights)
               /\ \A k \in 1..Len(local_weights) : local_weights'[k] = local_weights[k]
          /\ heap'["global_model"] # heap["global_model"] => pc = "AGGREGATE"]_vars

\* in a later round a device has been trained away from the global parameters,
\* which are no longer the initial ones, and the next device is due
C9_Witness ==
    /\ pc = "DEVICES"
    /\ i >= 1
    /\ round >= 1
    /\ local_weights[1] # global_weights
    /\ heap["copy"] # heap["global_model"]
    /\ global_weights # InitialDict

(***************************************************************************)
(* C10: on a valid partition in which every shard is non-empty, with       *)
(* local_epochs >= 1, the 80/20 split gives every device of every round a  *)
(* non-empty training split and a non-empty validation split, so neither   *)
(* local_training nor evaluate divides by zero and the round is not cut    *)
(* short.  The code hands local_training an empty training split on a      *)
(* shard of one record.                                                    *)
(***************************************************************************)
C10_NoDivisionByZero ==
    (/\ Returned
     /\ areas <= nodes_count
     /\ areas <= NumClasses
     /\ \A n \in Devices : Len(Shard(n)) >= 1
     /\ local_epochs >= 1) =>
        /\ pc # "ABORTED"
        /\ \A n \in Devices :
              /\ train_size_of(Len(Shard(n))) >= 1
              /\ validation_size_of(Len(Shard(n))) >= 1

\* the part of C10 the code keeps: no division by zero once every shard has
\* two records or more
NoDivisionByZeroFromTwoRecords ==
    (/\ Returned
     /\ \A n \in Devices : Len(Shard(n)) >= 2
     /\ local_epochs >= 1) =>
        pc # "ABORTED"

=============================================================================
